---- MODULE Spec2Model ----
(***************************************************************************)
(* pull_osm_data.py: download regional OSM extracts, merge them with       *)
(* osmium, optionally upload the merged file to S3/R2.                     *)
(*                                                                         *)
(* Three specifications:                                                   *)
(*   Spec      main() run repeatedly over one file system (the pipeline)   *)
(*   SpecFresh needs_download probed on arbitrary files and clock values    *)
(*   SpecEnv   load_env_file applied to arbitrary small config files        *)
(***************************************************************************)
EXTENDS Integers, Sequences, FiniteSets, TLC

VARIABLES
    \* ---- configuration read at import time (lines 90-110)
    OSM_SOURCE,       \* os.getenv("OSM_SOURCE"): None or a url
    S3_ENABLED,       \* truth value of eval(os.getenv("S3_ENABLED", "False"))
    all_locations,    \* locations_conf.split(","), each already split on "/"
    \* ---- the world
    now,              \* wall clock, in time units
    fs,               \* download directory: country -> [st, mtime]
    outfile,          \* does OSM_DIR/all.osm.pbf exist
    \* ---- main() and the component it is in
    pc,
    run,              \* number of the current run of main()
    i,                \* download_files: index of the location being processed
    downloaded_files, \* download_files: the list being built
    outcome,          \* history: what happened to each processed location
    requests,         \* history: requests.get calls issued in this run
    cleaned,          \* history: outcome of clean_old_merge in this run
    merge_raised,     \* history: the merge library raised in this run
    merged_file,      \* main(): result of merge_files
    client,           \* history: boto3.client was called in this run
    upload_success,   \* main(): result of upload_to_r2, "True" or "False"
    probe,            \* last call of needs_download: << path, result >>
    \* ---- load_env_file
    path_is_file,     \* which of input_env_file, ".env" is a file
    dotenv,           \* contents of the chosen file
    override,
    environ,          \* os.environ
    environ0,         \* history: os.environ before the call
    envpc

vars == << OSM_SOURCE, S3_ENABLED, all_locations, now, fs, outfile, pc, run, i,
           downloaded_files, outcome, requests, cleaned, merge_raised, merged_file,
           client, upload_success, probe, path_is_file, dotenv, override, environ,
           environ0, envpc >>

cfgVars == << OSM_SOURCE, S3_ENABLED, all_locations >>
envVars == << path_is_file, dotenv, override, environ, environ0, envpc >>
runVars == << i, downloaded_files, outcome, requests, cleaned, merge_raised,
              merged_file, client, upload_success >>

(***************************************************************************)
(* Bounds                                                                  *)
(***************************************************************************)
MaxLocs == 2          \* configured locations per run
MaxRuns == 2          \* runs of main() over the same file system
MaxTicks == 2         \* clock units that may pass after the first run's start
UnitsPerDay == 2      \* clock units in one day
MaxFileLen == 6       \* characters in the config file given to load_env_file
MaxFallbackLen == 2   \* characters in the config file when ".env" is there too

\* age.days >= 7
MaxAgeDays == 7

\* The first run starts when a file written at time 0 is exactly 7 days old.
StartTime == MaxAgeDays * UnitsPerDay
MaxTime == StartTime + MaxTicks

(***************************************************************************)
(* Configuration values                                                    *)
(***************************************************************************)
None == "None"
Url == "https://source"
OutputFile == "all.osm.pbf"

\* A location is the list loc.split("/") produces.
Locations == { <<"africa", "togo">>, <<"africa", "mali">>, <<"togo">> }
Countries == { "togo", "mali" }

\* All sequences over S of length lo..hi.
SeqsOf(S, lo, hi) == UNION { [1..n -> S] : n \in lo..hi }

(***************************************************************************)
(* Freshness Checker                                                       *)
(***************************************************************************)
\* timedelta.days: whole days, rounded towards minus infinity.
Days(delta) == delta \div UnitsPerDay

Exists(f) == fs[f].st # "absent"

\* Mutant: a file of exactly 7 days is still taken as fresh.
needs_download_strict(filepath) ==
    IF ~Exists(filepath) THEN TRUE
    ELSE LET age == now - fs[filepath].mtime
         IN  Days(age) > MaxAgeDays

needs_download(filepath) ==
    IF ~Exists(filepath) THEN TRUE
    ELSE LET age == now - fs[filepath].mtime
         IN  Days(age) >= MaxAgeDays

(***************************************************************************)
(* Downloader                                                              *)
(***************************************************************************)
\* f"{DOWNLOAD_DIR}/{country}-latest.osm.pbf": the file is named by paths[1].
Filename(loc) == loc[2]

Loc == all_locations[i]

InLoop == pc = "Download" /\ i <= Len(all_locations)

\* Leaving the iteration of location i for the next one.
NextLocation(files, what) ==
    /\ downloaded_files' = files
    /\ outcome' = Append(outcome, what)
    /\ i' = i + 1
    /\ pc' = "Download"

\* paths[1] on a location without "/" raises IndexError, outside any try.
BadLocation ==
    /\ InLoop
    /\ Len(Loc) < 2
    /\ pc' = "Crashed"
    /\ UNCHANGED << cfgVars, now, fs, outfile, run, runVars, probe, envVars >>

\* The file is fresh: no request, the path is appended.
SkipFresh ==
    /\ InLoop
    /\ Len(Loc) >= 2
    /\ ~needs_download(Filename(Loc))
    /\ NextLocation(Append(downloaded_files, Filename(Loc)), "fresh")
    /\ UNCHANGED << cfgVars, now, fs, outfile, run, requests, cleaned,
                    merge_raised, merged_file, client, upload_success, probe, envVars >>

StartRequest ==
    /\ InLoop
    /\ Len(Loc) >= 2
    /\ needs_download(Filename(Loc))
    /\ requests' = requests + 1
    /\ pc' = "Request"
    /\ UNCHANGED << cfgVars, now, fs, outfile, run, i, downloaded_files, outcome,
                    cleaned, merge_raised, merged_file, client, upload_success, probe,
                    envVars >>

\* Mutant: the path is appended although the download failed.
OnRequestExceptionAppends == NextLocation(Append(downloaded_files, Filename(Loc)), "failed")

\* Mutant: the failure ends the loop (break instead of continue).
OnRequestExceptionBreaks ==
    /\ downloaded_files' = downloaded_files
    /\ outcome' = Append(outcome, "failed")
    /\ i' = Len(all_locations) + 1
    /\ pc' = "Download"

\* except RequestException: log, continue -- the append is skipped.
OnRequestException == NextLocation(downloaded_files, "failed")

\* requests.get or raise_for_status raised: connection error, 4xx, 5xx.
RequestFailed ==
    /\ pc = "Request"
    /\ OnRequestException
    /\ UNCHANGED << cfgVars, now, fs, outfile, run, requests, cleaned,
                    merge_raised, merged_file, client, upload_success, probe, envVars >>

\* open(filename, "wb") raised OSError: not a RequestException, it propagates.
OpenFailed ==
    /\ pc = "Request"
    /\ pc' = "Crashed"
    /\ UNCHANGED << cfgVars, now, fs, outfile, run, runVars, probe, envVars >>

\* open(filename, "wb") truncates the file, whatever it held.
OpenOk ==
    /\ pc = "Request"
    /\ fs' = [fs EXCEPT ![Filename(Loc)] = [st |-> "partial", mtime |-> now]]
    /\ pc' = "Stream"
    /\ UNCHANGED << cfgVars, now, outfile, run, runVars, probe, envVars >>

\* iter_content raised a RequestException in mid-stream: the file stays cut short.
StreamFailed ==
    /\ pc = "Stream"
    /\ fs' = [fs EXCEPT ![Filename(Loc)] = [st |-> "partial", mtime |-> now]]
    /\ OnRequestException
    /\ UNCHANGED << cfgVars, now, outfile, run, requests, cleaned,
                    merge_raised, merged_file, client, upload_success, probe, envVars >>

\* f.write raised OSError (disk full): it propagates.
WriteFailed ==
    /\ pc = "Stream"
    /\ fs' = [fs EXCEPT ![Filename(Loc)] = [st |-> "partial", mtime |-> now]]
    /\ pc' = "Crashed"
    /\ UNCHANGED << cfgVars, now, outfile, run, runVars, probe, envVars >>

StreamDone ==
    /\ pc = "Stream"
    /\ fs' = [fs EXCEPT ![Filename(Loc)] = [st |-> "complete", mtime |-> now]]
    /\ NextLocation(Append(downloaded_files, Filename(Loc)), "ok")
    /\ UNCHANGED << cfgVars, now, outfile, run, requests, cleaned,
                    merge_raised, merged_file, client, upload_success, probe, envVars >>

(***************************************************************************)
(* Orchestrator: main()                                                    *)
(***************************************************************************)
\* if not downloaded_files: log, return
AfterDownload(files) == IF files = <<>> THEN "Done" ELSE "Merge"

\* Mutant: the absent result is not looked at.
AfterMergeUnchecked(result) == "UploadOrSkip"

\* if not merged_file: log, return
AfterMerge(result) == IF result = None THEN "Done" ELSE "UploadOrSkip"

\* Mutant: the upload is not gated by S3_ENABLED.
AfterMergeOkUngated(enabled) == "Client"

\* if S3_ENABLED: upload_to_r2(...)  else: log "disabled"
AfterMergeOk(enabled) == IF enabled THEN "Client" ELSE "Done"

\* Mutant: the missing source is logged but the run goes on.
SourceGateOpen(source) == "Download"

\* if OSM_SOURCE is None: sys.exit()  else: construct the handler, download
SourceGate(source) == IF source = None THEN "Exit" ELSE "Download"

CheckSource ==
    /\ pc = "CheckSource"
    /\ pc' = SourceGate(OSM_SOURCE)
    /\ UNCHANGED << cfgVars, now, fs, outfile, run, runVars, probe, envVars >>

\* The for loop is exhausted: download_files returns, main() looks at the list.
DownloadReturn ==
    /\ pc = "Download"
    /\ i > Len(all_locations)
    /\ pc' = AfterDownload(downloaded_files)
    /\ UNCHANGED << cfgVars, now, fs, outfile, run, runVars, probe, envVars >>

(***************************************************************************)
(* Merger                                                                  *)
(***************************************************************************)
CleanOutcomes == { "deleted", "not_found", "permission", "other" }

\* Mutant: only FileNotFoundError is caught; other errors reach merge_files'
\* own handler, which returns None.
AfterCleanRaising(o) == IF o \in { "permission", "other" } THEN "Done" ELSE "MergeLib"

\* clean_old_merge catches every exception of unlink: it always returns.
AfterClean(o) == "MergeLib"

\* Path.unlink on the old output file, with outcome o.
clean_old_merge(o) ==
    /\ pc = "Merge"
    /\ o = "deleted" => outfile
    /\ o = "not_found" => ~outfile
    /\ cleaned' = o
    /\ outfile' = IF o = "deleted" THEN FALSE ELSE outfile
    /\ pc' = AfterClean(o)
    /\ UNCHANGED << cfgVars, now, fs, run, i, downloaded_files, outcome, requests,
                    merge_raised, merged_file, client, upload_success, probe, envVars >>

\* SimpleWriter, add_file for every input, apply: all succeed.
MergeOk ==
    /\ pc = "MergeLib"
    /\ outfile' = TRUE
    /\ merged_file' = OutputFile
    /\ pc' = AfterMerge(OutputFile)
    /\ UNCHANGED << cfgVars, now, fs, run, i, downloaded_files, outcome, requests,
                    cleaned, merge_raised, client, upload_success, probe, envVars >>

\* One of the library calls raised; the writer may or may not have made the file.
MergeRaised(written) ==
    /\ pc = "MergeLib"
    /\ outfile' = (outfile \/ written)
    /\ merge_raised' = TRUE
    /\ merged_file' = None
    /\ pc' = AfterMerge(None)
    /\ UNCHANGED << cfgVars, now, fs, run, i, downloaded_files, outcome, requests,
                    cleaned, client, upload_success, probe, envVars >>

(***************************************************************************)
(* Uploader                                                                *)
(***************************************************************************)
UploadOrSkip ==
    /\ pc = "UploadOrSkip"
    /\ pc' = AfterMergeOk(S3_ENABLED)
    /\ UNCHANGED << cfgVars, now, fs, outfile, run, runVars, probe, envVars >>

\* boto3.client(...) returns a client.
ClientOk ==
    /\ pc = "Client"
    /\ client' = TRUE
    /\ pc' = "Upload"
    /\ UNCHANGED << cfgVars, now, fs, outfile, run, i, downloaded_files, outcome,
                    requests, cleaned, merge_raised, merged_file, upload_success, probe,
                    envVars >>

\* boto3.client(...) raised: caught, upload_to_r2 returns False.
ClientRaised ==
    /\ pc = "Client"
    /\ client' = TRUE
    /\ upload_success' = "False"
    /\ pc' = "Done"
    /\ UNCHANGED << cfgVars, now, fs, outfile, run, i, downloaded_files, outcome,
                    requests, cleaned, merge_raised, merged_file, probe, envVars >>

\* open + upload_fileobj: the result is False when either raised.
Upload(ok) ==
    /\ pc = "Upload"
    /\ upload_success' = IF ok THEN "True" ELSE "False"
    /\ pc' = "Done"
    /\ UNCHANGED << cfgVars, now, fs, outfile, run, i, downloaded_files, outcome,
                    requests, cleaned, merge_raised, merged_file, client, probe, envVars >>

(***************************************************************************)
(* The world: time passes, the script is run again                         *)
(***************************************************************************)
Terminal == { "Done", "Exit", "Crashed" }

\* The clock is read by download_files alone; time passing in a later stage
\* shows at the next run's start.
Tick ==
    /\ pc \in { "CheckSource", "Download", "Request", "Stream" }
    /\ now < MaxTime
    /\ now' = now + 1
    /\ UNCHANGED << cfgVars, fs, outfile, pc, run, runVars, probe, envVars >>

RunInit ==
    /\ i = 1
    /\ downloaded_files = <<>>
    /\ outcome = <<>>
    /\ requests = 0
    /\ cleaned = "none"
    /\ merge_raised = FALSE
    /\ merged_file = "unset"
    /\ client = FALSE
    /\ upload_success = "unset"

NewRun ==
    /\ pc \in Terminal
    /\ run < MaxRuns
    /\ run' = run + 1
    /\ pc' = "CheckSource"
    /\ i' = 1
    /\ downloaded_files' = <<>>
    /\ outcome' = <<>>
    /\ requests' = 0
    /\ cleaned' = "none"
    /\ merge_raised' = FALSE
    /\ merged_file' = "unset"
    /\ client' = FALSE
    /\ upload_success' = "unset"
    /\ UNCHANGED << cfgVars, now, fs, outfile, probe, envVars >>

\* Values of the variables a specification does not use.
IdleEnv ==
    /\ path_is_file = << FALSE, FALSE >>
    /\ dotenv = <<>>
    /\ override = FALSE
    /\ environ = <<>>
    /\ environ0 = <<>>
    /\ envpc = "idle"

AbsentFile == [st |-> "absent", mtime |-> 0]

Init ==
    /\ OSM_SOURCE \in { None, Url }
    /\ S3_ENABLED \in BOOLEAN
    /\ all_locations \in SeqsOf(Locations, 1, MaxLocs)
    /\ now = StartTime
    /\ fs \in [Countries -> { AbsentFile } \cup
                  [st : { "orig" }, mtime : { 0, 1 }]]
    /\ outfile \in BOOLEAN
    /\ pc = "CheckSource"
    /\ run = 1
    /\ RunInit
    /\ probe = <<>>
    /\ IdleEnv

Next ==
    \/ CheckSource
    \/ BadLocation
    \/ SkipFresh
    \/ StartRequest
    \/ RequestFailed
    \/ OpenFailed
    \/ OpenOk
    \/ StreamFailed
    \/ WriteFailed
    \/ StreamDone
    \/ DownloadReturn
    \/ \E o \in CleanOutcomes : clean_old_merge(o)
    \/ MergeOk
    \/ \E written \in BOOLEAN : MergeRaised(written)
    \/ UploadOrSkip
    \/ ClientOk
    \/ ClientRaised
    \/ \E ok \in BOOLEAN : Upload(ok)
    \/ Tick
    \/ NewRun

Spec == Init /\ [][Next]_vars

(***************************************************************************)
(* Properties of the pipeline (specification Spec)                         *)
(***************************************************************************)
\* download_files has returned to main() in the current run.
DlReturned == pc \in { "Merge", "MergeLib", "UploadOrSkip", "Client", "Upload", "Done" }

MergerInvoked == pc \in { "Merge", "MergeLib" } \/ cleaned # "none"

UploaderInvoked == pc \in { "Client", "Upload" } \/ upload_success # "unset"

\* The paths of the first k locations whose outcome is fresh or ok, in order.
RECURSIVE KeptPaths(_)
KeptPaths(k) ==
    IF k = 0 THEN <<>>
    ELSE IF outcome[k] \in { "fresh", "ok" }
         THEN Append(KeptPaths(k - 1), Filename(all_locations[k]))
         ELSE KeptPaths(k - 1)

\* C1 as stated: the list download_files returns has one entry per configured
\* location, the j-th being the local path of the j-th location, a failed
\* download included.
C1_OnePathPerLocation ==
    DlReturned =>
        /\ Len(downloaded_files) = Len(all_locations)
        /\ \A j \in 1 .. Len(all_locations) :
               downloaded_files[j] = Filename(all_locations[j])

\* C1 amended: the list download_files returns holds, in configured order,
\* exactly the local paths of the locations that were skipped as fresh or
\* downloaded successfully; a location whose download failed has no entry.
C1_PathsOfFreshAndDownloaded ==
    DlReturned =>
        /\ Len(outcome) = Len(all_locations)
        /\ downloaded_files = KeptPaths(Len(all_locations))

C1_Witness ==
    /\ DlReturned
    /\ \E j \in 1 .. Len(outcome) : outcome[j] = "failed"
    /\ \E j \in 1 .. Len(outcome) : outcome[j] = "ok"

\* C2: a transport failure never aborts download_files: once a location has
\* failed, the loop has moved on to the next location, no location before the
\* current one was left unprocessed, the call returns only after the last
\* location, and the fresh and downloaded locations processed so far are in the
\* result in configured order.
C2_FailureDoesNotAbort ==
    (\E j \in 1 .. Len(outcome) : outcome[j] = "failed") =>
        /\ pc # "Crashed" => i = Len(outcome) + 1
        /\ DlReturned => Len(outcome) = Len(all_locations)
        /\ \A j \in 1 .. Len(outcome) :
               outcome[j] \in { "fresh", "ok" } =>
                   \E k \in 1 .. Len(downloaded_files) :
                       /\ downloaded_files[k] = Filename(all_locations[j])
                       /\ k = Len(KeptPaths(j))

C2_Witness ==
    /\ DlReturned
    /\ Len(outcome) = 2
    /\ outcome[1] = "failed"
    /\ outcome[2] \in { "fresh", "ok" }

\* C3: with OSM_SOURCE unset a run goes from CheckSource to the exit and
\* nowhere else: no request is issued, no location processed, no merge and no
\* upload entered.
C3_NoSourceNoWork ==
    OSM_SOURCE = None =>
        /\ pc \in { "CheckSource", "Exit" }
        /\ requests = 0
        /\ outcome = <<>>
        /\ ~MergerInvoked
        /\ ~UploaderInvoked
        /\ ~client

C3_Witness == OSM_SOURCE = None /\ pc = "Exit" /\ run = MaxRuns

\* C4: with S3_ENABLED false no storage client is constructed and the
\* uploader is never entered, whatever the download and merge stages did.
C4_DisabledNoClient ==
    ~S3_ENABLED => ~client /\ ~UploaderInvoked

C4_Witness == ~S3_ENABLED /\ pc = "Done" /\ merged_file = OutputFile

\* C5: the stages are gated in order: the merger runs only after the
\* downloader returned a non-empty list, the uploader only after the merger of
\* the same run returned the output path, and an absent merge result ends the
\* run with no upload attempt.
C5_StagesGated ==
    /\ (requests > 0 \/ outcome # <<>>) => OSM_SOURCE # None
    /\ MergerInvoked =>
           /\ Len(outcome) = Len(all_locations)
           /\ downloaded_files # <<>>
    /\ (pc = "UploadOrSkip" \/ UploaderInvoked) =>
           /\ cleaned # "none"
           /\ merged_file = OutputFile
    /\ merged_file = None => pc = "Done" /\ ~UploaderInvoked /\ ~client

C5_Witness == S3_ENABLED /\ merged_file = None /\ pc = "Done"

\* C6: merge_files attempts the deletion before the merge library is started;
\* after every outcome of the deletion the merge library is invoked; and
\* merge_files returns an absent result only when the merge library raised.
C6_DeletionNeverBlocksMerge ==
    /\ (pc = "MergeLib" \/ merged_file # "unset") => cleaned # "none"
    /\ cleaned # "none" => (pc = "MergeLib" \/ merged_file # "unset")
    /\ merged_file = None => merge_raised

C6_Witness ==
    /\ cleaned \in { "not_found", "permission", "other" }
    /\ merged_file = OutputFile

\* C9 as stated: no failure inside a component is raised past it: every run
\* ends at the fatal-configuration exit or by normal return.
C9_NoFailureEscapes == pc # "Crashed"

\* C10 as stated: every path download_files returns refers to a file that a
\* successful download wrote completely or that existed before the first run.
C10_ReturnedFilesComplete ==
    DlReturned =>
        \A j \in 1 .. Len(downloaded_files) :
            fs[downloaded_files[j]].st \in { "orig", "complete" }

(***************************************************************************)
(* needs_download on its own (specification SpecFresh)                     *)
(***************************************************************************)
FreshMaxTime == (MaxAgeDays + 1) * UnitsPerDay

\* Values of the variables a specification does not use.
IdleMain ==
    /\ OSM_SOURCE = None
    /\ S3_ENABLED = FALSE
    /\ all_locations = <<>>
    /\ outfile = FALSE
    /\ pc = "idle"
    /\ run = 1
    /\ RunInit

\* A call of needs_download(f); probe holds << argument, result >>.
ProbeNeedsDownload(f) ==
    /\ probe' = << f, needs_download(f) >>
    /\ UNCHANGED << cfgVars, now, fs, outfile, pc, run, runVars, envVars >>

FreshTick ==
    /\ now < FreshMaxTime
    /\ now' = now + 1
    /\ UNCHANGED << cfgVars, fs, outfile, pc, run, runVars, probe, envVars >>

\* Files of any age, also with a modification time ahead of the clock.
InitFresh ==
    /\ IdleMain
    /\ IdleEnv
    /\ probe = <<>>
    /\ now \in 0 .. FreshMaxTime
    /\ fs \in [Countries -> { AbsentFile } \cup
                  [st : { "orig" }, mtime : 0 .. FreshMaxTime]]

NextFresh ==
    \/ \E f \in Countries : ProbeNeedsDownload(f)
    \/ FreshTick

SpecFresh == InitFresh /\ [][NextFresh]_vars

\* C7: a call of needs_download returns true for a missing file, and for an
\* existing one exactly when now minus its modification time is at least 7
\* days; the call changes nothing in the file system.
C7_FreshnessContract ==
    [][probe' # probe =>
          /\ fs' = fs
          /\ outfile' = outfile
          /\ probe'[2] =
                 (\/ fs[probe'[1]].st = "absent"
                  \/ now - fs[probe'[1]].mtime >= MaxAgeDays * UnitsPerDay)]_vars

C7_Witness ==
    /\ probe # <<>>
    /\ probe[2]
    /\ fs[probe[1]].st # "absent"
    /\ now - fs[probe[1]].mtime = MaxAgeDays * UnitsPerDay

(***************************************************************************)
(* Config Loader: load_env_file (specification SpecEnv)                    *)
(* A string is the sequence of its characters.                             *)
(***************************************************************************)
NL == "\n"
Chars == { "a", "=", "#", " ", NL }

\* str.splitlines() on pos..end of s, cur being the line read so far: every
\* newline ends a line, and so does the end of a non-empty last line.
RECURSIVE SplitFrom(_, _, _)
SplitFrom(s, pos, cur) ==
    IF pos > Len(s) THEN (IF cur = <<>> THEN <<>> ELSE << cur >>)
    ELSE IF s[pos] = NL THEN << cur >> \o SplitFrom(s, pos + 1, <<>>)
    ELSE SplitFrom(s, pos + 1, Append(cur, s[pos]))

SplitLines(s) == SplitFrom(s, 1, <<>>)

\* str.strip(): leading and trailing whitespace removed.
RECURSIVE LStrip(_)
LStrip(s) == IF s # <<>> /\ Head(s) = " " THEN LStrip(Tail(s)) ELSE s

RECURSIVE RStrip(_)
RStrip(s) ==
    IF s # <<>> /\ s[Len(s)] = " " THEN RStrip(SubSeq(s, 1, Len(s) - 1)) ELSE s

Strip(s) == RStrip(LStrip(s))

HasEq(s) == \E k \in 1 .. Len(s) : s[k] = "="

FirstEq(s) == CHOOSE k \in 1 .. Len(s) : s[k] = "=" /\ \A j \in 1 .. k - 1 : s[j] # "="

\* not line or line.startswith("#") or "=" not in line
Skipped(line) == line = <<>> \/ Head(line) = "#" \/ ~HasEq(line)

\* line.split("=", maxsplit=1)
Key(line) == SubSeq(line, 1, FirstEq(line) - 1)
Value(line) == SubSeq(line, FirstEq(line) + 1, Len(line))

\* A dict is the sequence of its << key, value >> items in insertion order.
Keys(d) == { d[j][1] : j \in 1 .. Len(d) }

\* Mutant: dict[key] = value, the last line of a key wins.
DictSet(d, key, value) ==
    IF key \in Keys(d)
    THEN [j \in 1 .. Len(d) |-> IF d[j][1] = key THEN << key, value >> ELSE d[j]]
    ELSE Append(d, << key, value >>)

\* dict.setdefault(key, value)
DictSetDefault(d, key, value) ==
    IF key \in Keys(d) THEN d ELSE Append(d, << key, value >>)

\* dotenv_vars after the first k lines.
RECURSIVE ParseLines(_, _)
ParseLines(lines, k) ==
    IF k = 0 THEN <<>>
    ELSE LET line == Strip(lines[k])
             d == ParseLines(lines, k - 1)
         IN  IF Skipped(line) THEN d ELSE DictSetDefault(d, Key(line), Value(line))

\* os.environ[key] = value; putenv refuses the empty name (OSError).
PutenvOk(key) == key # <<>>

EnvSet(env, key, value) ==
    [x \in DOMAIN env \cup { key } |-> IF x = key THEN value ELSE env[x]]

\* os.environ.update(d) / the setdefault loop, item by item from item k on;
\* the result is << environment, raised >>.
RECURSIVE ApplyItems(_, _, _, _)
ApplyItems(env, d, k, ovr) ==
    IF k > Len(d) THEN << env, FALSE >>
    ELSE LET key == d[k][1]
             value == d[k][2]
         IN  IF ~ovr /\ key \in DOMAIN env THEN ApplyItems(env, d, k + 1, ovr)
             ELSE IF ~PutenvOk(key) THEN << env, TRUE >>
             ELSE ApplyItems(EnvSet(env, key, value), d, k + 1, ovr)

\* input_env_file is a file, or else ".env" is.
FileFound == path_is_file[1] \/ path_is_file[2]

\* Neither file exists: logger.critical, sys.exit().
LoadEnvExit ==
    /\ envpc = "start"
    /\ ~FileFound
    /\ envpc' = "exit"
    /\ UNCHANGED << cfgVars, now, fs, outfile, pc, run, runVars, probe,
                    path_is_file, dotenv, override, environ, environ0 >>

load_env_file ==
    /\ envpc = "start"
    /\ FileFound
    /\ LET lines == SplitLines(dotenv)
           r == ApplyItems(environ, ParseLines(lines, Len(lines)), 1, override)
       IN  /\ environ' = r[1]
           /\ envpc' = IF r[2] THEN "crashed" ELSE "loaded"
    /\ UNCHANGED << cfgVars, now, fs, outfile, pc, run, runVars, probe,
                    path_is_file, dotenv, override, environ0 >>

EmptyEnv == [x \in {} |-> <<>>]

InitialEnvs == { EmptyEnv, [x \in { <<"a">> } |-> <<"#">>] }

InitEnv ==
    /\ IdleMain
    /\ probe = <<>>
    /\ now = 0
    /\ fs = [f \in Countries |-> AbsentFile]
    /\ path_is_file \in BOOLEAN \X BOOLEAN
    /\ dotenv \in IF path_is_file = << FALSE, FALSE >> THEN { <<>> }
                  ELSE IF path_is_file = << TRUE, FALSE >>
                       THEN SeqsOf(Chars, 0, MaxFileLen)
                       ELSE SeqsOf(Chars, 0, MaxFallbackLen)
    /\ override \in BOOLEAN
    /\ environ \in InitialEnvs
    /\ environ0 = environ
    /\ envpc = "start"

NextEnv ==
    \/ LoadEnvExit
    \/ load_env_file

SpecEnv == InitEnv /\ [][NextEnv]_vars

\* The lines of the file, and those that define a key.
FileLines == SplitLines(dotenv)

Defining(k) == ~Skipped(Strip(FileLines[k]))

LineKey(k) == Key(Strip(FileLines[k]))

LineValue(k) == Value(Strip(FileLines[k]))

FileKeys == { LineKey(k) : k \in { j \in 1 .. Len(FileLines) : Defining(j) } }

\* The value the first line defining key gives it.
FirstValue(key) ==
    LET k == CHOOSE j \in 1 .. Len(FileLines) :
                 /\ Defining(j) /\ LineKey(j) = key
                 /\ \A h \in 1 .. j - 1 : ~(Defining(h) /\ LineKey(h) = key)
    IN  LineValue(k)

\* The environment leaves every key no line defines as it was, and adds none.
OthersUnchanged ==
    /\ DOMAIN environ = DOMAIN environ0 \cup FileKeys
    /\ \A key \in DOMAIN environ0 \ FileKeys : environ[key] = environ0[key]

\* C8 as stated: after the load, every key=value line of the file has given
\* its key its value, except in setdefault mode for keys the environment held
\* before; blank, comment and '='-less lines set nothing, other keys are
\* unchanged.
C8_EveryLineApplied ==
    envpc = "loaded" =>
        /\ OthersUnchanged
        /\ \A k \in 1 .. Len(FileLines) :
               Defining(k) =>
                   environ[LineKey(k)] =
                       IF ~override /\ LineKey(k) \in DOMAIN environ0
                       THEN environ0[LineKey(k)]
                       ELSE LineValue(k)

\* C8 amended: the file's value of a key is the value of the first line that
\* defines it; with that, setdefault mode keeps a prior value and otherwise
\* takes the file's value, override mode always takes the file's value, and
\* keys no line defines are unchanged.
C8_FirstLineApplied ==
    envpc = "loaded" =>
        /\ OthersUnchanged
        /\ \A key \in FileKeys :
               environ[key] =
                   IF ~override /\ key \in DOMAIN environ0
                   THEN environ0[key]
                   ELSE FirstValue(key)

C8_Witness ==
    /\ envpc = "loaded"
    /\ override
    /\ <<"a">> \in DOMAIN environ0
    /\ <<"a">> \in FileKeys
    /\ environ[<<"a">>] # environ0[<<"a">>]
    /\ \E k \in 1 .. Len(FileLines) : Skipped(Strip(FileLines[k]))

====
